---- MODULE Spec2Model ----
(***************************************************************************)
(* Model of the ai-server of Family_Tube: the mute-schedule derivation of  *)
(* whisperx_pipeline.generate_mute_schedule (scan, buffer, sort, merge,    *)
(* filter, cache), the job registry and background processing of app.py,   *)
(* and the audio acquisition of utils.download_audio.                      *)
(*                                                                         *)
(* Times are counted in hundredths of a second (0.17 s = 17, 7.0 s = 700), *)
(* so that the arithmetic of the code is exact integer arithmetic.  Texts  *)
(* and words are sequences of one-character strings.                       *)
(***************************************************************************)
EXTENDS Integers, Sequences, FiniteSets, TLC

\* ------------------------------------------------------------------------
\* Bounds of the model
\* ------------------------------------------------------------------------

\* Longest transcript (number of segments) given to the pipeline.
MaxSegs == 2

\* Segment start and end times the transcripts are drawn from.
TimeGrid == {0, 10, 683, 900, 1700}

\* Segment texts the transcripts are drawn from.
Texts ==
    { <<"o", "k">>,
      <<"D", "a", "m", "n", " ", "i", "t">>,
      <<"h", "e", "l", "l", "o">>,
      <<"d", "a", "m", "n", " ", "h", "e", "l", "l">> }

\* The custom_words lists a request may carry.
CustomWordLists ==
    { <<>>,
      << <<" ", "H", "e", "l", "l", " ">>, <<" ">> >> }

\* The values of the buffer parameter: 0 and the default.
DEFAULT_BUFFER == 17
Buffers == {0, DEFAULT_BUFFER}

\* ------------------------------------------------------------------------
\* Program constants
\* ------------------------------------------------------------------------

\* The longest mute zone the filter keeps, 7.0 s.
MAX_DURATION == 700

\* The base profanity list loaded at import time.
BASE_PROFANITY_LIST == << <<"d", "a", "m", "n">> >>

\* ------------------------------------------------------------------------
\* Strings
\* ------------------------------------------------------------------------

Max(a, b) == IF a >= b THEN a ELSE b

Range(s) == {s[i] : i \in DOMAIN s}

\* str.lower() on one character.
LowerChar(c) ==
    CASE c = "D" -> "d"
      [] c = "H" -> "h"
      [] OTHER -> c

\* str.lower()
Lower(text) == [i \in 1..Len(text) |-> LowerChar(text[i])]

\* str.strip(): leading and trailing blanks removed.
Strip(w) ==
    LET inked == {k \in DOMAIN w : w[k] # " "}
    IN  IF inked = {} THEN <<>>
        ELSE SubSeq(w, CHOOSE k \in inked : \A j \in inked : k <= j,
                       CHOOSE k \in inked : \A j \in inked : k >= j)

\* `word in text` on strings: substring containment.
Contains(word, text) ==
    \E i \in 0..(Len(text) - Len(word)) :
        SubSeq(text, i + 1, i + Len(word)) = word

\* [w.strip().lower() for w in words if w.strip()]
Normalized(words) ==
    { Lower(Strip(words[i])) : i \in {k \in DOMAIN words : Strip(words[k]) # <<>>} }

\* The set of words of profanity_list: base and custom words, normalized.
ProfanityWords(words) ==
    Normalized(BASE_PROFANITY_LIST) \cup Normalized(words)

\* All the orders list(set(...)) may give the words in.
Orderings(S) ==
    { p \in [1..Cardinality(S) -> S] : Range(p) = S }

\* ------------------------------------------------------------------------
\* The derivation: scan, buffer, sort, merge, filter
\* ------------------------------------------------------------------------

\* A faulty variant of the buffering: the start is not clamped at 0.
UnclampedZone(segment, bad_word, pad) ==
    [start |-> segment.start - pad,
     end   |-> segment.end + pad,
     word  |-> bad_word]

\* A faulty variant of the buffering: the end is one hundredth late.
LateZone(segment, bad_word, pad) ==
    [start |-> Max(0, segment.start - pad),
     end   |-> segment.end + pad + 1,
     word  |-> bad_word]

\* The dict appended for a match: the segment's span widened by the buffer,
\* the start clamped at 0.
BufferedZone(segment, bad_word, pad) ==
    [start |-> Max(0, segment.start - pad),
     end   |-> segment.end + pad,
     word  |-> bad_word]

\* A faulty variant of the inner loop: it stops at the first matching word.
SegmentZonesFirst(segment, bad_words, pad) ==
    LET hits == {i \in DOMAIN bad_words : Contains(bad_words[i], Lower(segment.text))}
    IN  IF hits = {} THEN <<>>
        ELSE << BufferedZone(segment,
                             bad_words[CHOOSE i \in hits : \A h \in hits : i <= h],
                             pad) >>

\* The mute zones one segment contributes: one per matching word, in the
\* order of profanity_list, buffered, the start clamped at 0.
SegmentZones(segment, bad_words, pad) ==
    LET zones[i \in 0..Len(bad_words)] ==
            IF i = 0 THEN <<>>
            ELSE LET bad_word == bad_words[i]
                 IN  IF Contains(bad_word, Lower(segment.text))
                     THEN Append(zones[i - 1], BufferedZone(segment, bad_word, pad))
                     ELSE zones[i - 1]
    IN  zones[Len(bad_words)]

\* The loop over the segments: mute_schedule before it is sorted.
ScanSegments(aligned, bad_words, pad) ==
    LET zones[i \in 0..Len(aligned)] ==
            IF i = 0 THEN <<>>
            ELSE zones[i - 1] \o SegmentZones(aligned[i], bad_words, pad)
    IN  zones[Len(aligned)]

\* Insert m after every entry whose start is <= m.start (stable).
InsertByStart(sorted, m) ==
    LET k == Cardinality({i \in DOMAIN sorted : sorted[i].start <= m.start})
    IN  SubSeq(sorted, 1, k) \o <<m>> \o SubSeq(sorted, k + 1, Len(sorted))

\* A faulty variant of the sort: the zones are left in scan order.
ScanOrder(zones) == zones

\* mute_schedule.sort(key=lambda x: x["start"]): a stable sort by start.
SortByStart(zones) ==
    LET sorted[i \in 0..Len(zones)] ==
            IF i = 0 THEN <<>> ELSE InsertByStart(sorted[i - 1], zones[i])
    IN  sorted[Len(zones)]

\* A faulty variant of the merge step: every zone is appended, none joined.
AppendOnly(joined, m) == Append(joined, m)

\* A faulty variant of the merge step: a zone that starts exactly where the
\* last one ends is not joined to it.
MergeStepStrict(joined, m) ==
    IF joined = <<>> \/ m.start >= joined[Len(joined)].end
    THEN Append(joined, m)
    ELSE [joined EXCEPT ![Len(joined)].end = Max(joined[Len(joined)].end, m.end)]

\* One iteration of the merge loop.
MergeStep(joined, m) ==
    IF joined = <<>> \/ m.start > joined[Len(joined)].end
    THEN Append(joined, m)
    ELSE [joined EXCEPT ![Len(joined)].end = Max(joined[Len(joined)].end, m.end)]

\* The merge loop over the sorted zones.
MergeZones(zones) ==
    LET joined[i \in 0..Len(zones)] ==
            IF i = 0 THEN <<>> ELSE MergeStep(joined[i - 1], zones[i])
    IN  joined[Len(zones)]

\* A faulty variant of the filter's test: every entry is kept.
KeepsAny(entry) == entry.end >= entry.start

\* A faulty variant of the filter's test: an entry of exactly 7.0 s is
\* dropped.
KeepsShorter(entry) == (entry.end - entry.start) < MAX_DURATION

\* Whether the filter keeps an entry.
KeepsEntry(entry) == (entry.end - entry.start) <= MAX_DURATION

\* filtered = [entry for entry in merged if entry.end - entry.start <= 7.0]
FilterLong(joined) == SelectSeq(joined, KeepsEntry)

\* What a cache miss derives from the aligned segments.
Derive(aligned, bad_words, pad) ==
    FilterLong(MergeZones(SortByStart(ScanSegments(aligned, bad_words, pad))))

\* ------------------------------------------------------------------------
\* The cache record: json.dump and json.load
\* ------------------------------------------------------------------------

\* A cache file that does not exist.
NoFile == [exists |-> FALSE, open |-> FALSE, items |-> <<>>, close |-> FALSE]

\* The file just after open(cache_file, "w"): it exists and is empty.
Truncated == [exists |-> TRUE, open |-> FALSE, items |-> <<>>, close |-> FALSE]

\* One entry as json.dump writes it: the keys in insertion order.
JsonObject(entry) ==
    << <<"start", entry.start>>, <<"end", entry.end>> , <<"word", entry.word>> >>

\* The value of a key of a written object.
JsonValue(object, key) ==
    LET i == CHOOSE k \in DOMAIN object : object[k][1] = key IN object[i][2]

\* The objects json.dump writes for the entries of a list, in order.
JsonObjects(schedule) ==
    LET objects[i \in 0..Len(schedule)] ==
            IF i = 0 THEN <<>> ELSE Append(objects[i - 1], JsonObject(schedule[i]))
    IN  objects[Len(schedule)]

\* json.dump(filtered, f): the complete text of the record.
JsonDump(schedule) ==
    [exists |-> TRUE, open |-> TRUE, items |-> JsonObjects(schedule), close |-> TRUE]

\* Whether json.load accepts the text: an empty or unclosed text is a
\* JSONDecodeError.
JsonValid(file) == file.open /\ file.close

\* A faulty variant of the reader: start and end change places.
JsonEntrySwapped(object) ==
    [start |-> JsonValue(object, "end"),
     end   |-> JsonValue(object, "start"),
     word  |-> JsonValue(object, "word")]

\* The dict json.load builds from one object.
JsonEntry(object) ==
    [start |-> JsonValue(object, "start"),
     end   |-> JsonValue(object, "end"),
     word  |-> JsonValue(object, "word")]

\* The list json.load builds from the objects of a text, in order.
JsonEntries(items) ==
    LET entries[i \in 0..Len(items)] ==
            IF i = 0 THEN <<>> ELSE Append(entries[i - 1], JsonEntry(items[i]))
    IN  entries[Len(items)]

\* json.load(f) of a valid text.
JsonLoad(file) == JsonEntries(file.items)

\* ------------------------------------------------------------------------
\* The collaborators: yt-dlp and WhisperX
\* ------------------------------------------------------------------------

\* The submitted URLs.
Sources == {"u1", "u2"}

\* The video id yt-dlp names the downloaded file by.
VideoId(video_url) == IF video_url = "u1" THEN "a" ELSE "b"

\* The file yt-dlp writes for a URL: <<id, ext>>.
OutputFile(video_url) == <<VideoId(video_url), "webm">>

\* Path(audio_path).stem
Stem(path) == path[1]

Stems == {VideoId(u) : u \in Sources}

Seg(text, start, end) == [text |-> text, start |-> start, end |-> end]

\* The aligned segments WhisperX returns for an audio file: a function of
\* the audio alone.
AlignedSegments(path) ==
    IF Stem(path) = "a"
    THEN << Seg(<<"D", "a", "m", "n", " ", "i", "t">>, 10, 683),
            Seg(<<"h", "e", "l", "l", "o">>, 900, 900) >>
    ELSE << Seg(<<"D", "a", "m", "n", " ", "i", "t">>, 0, 683),
            Seg(<<"h", "e", "l", "l", "o">>, 683, 900) >>

\* ------------------------------------------------------------------------
\* State
\* ------------------------------------------------------------------------

\* Most jobs submitted in a run.
MaxJobs == 2

\* The job identifiers uuid4 draws from.
JobIds == 1..MaxJobs

VARIABLES
    jobs,           \* app.jobs: job_id -> [status, url, mute_schedule]
    pc,             \* where each job's background task stands
    custom_words,   \* the custom_words argument of each background task
    audio_path,     \* process_job's local audio_path
    result,         \* process_job's local mute_schedule
    served,         \* where generate_mute_schedule took it: "cache" or "fresh"
    downloads,      \* the files of DOWNLOAD_DIR, oldest mtime first
    cache,          \* the files of cache_dir, by stem
    dumped,         \* by stem, the list the last finished json.dump was given
    segments,       \* pipeline run: result_aligned["segments"]
    profanity_list, \* pipeline run: profanity_list
    buffer,         \* pipeline run: buffer
    stage,          \* pipeline run: the next step
    mute_schedule,  \* pipeline run: mute_schedule
    merged,         \* pipeline run: merged
    filtered        \* pipeline run: filtered

jobVars == <<jobs, pc, custom_words, audio_path, result, served, downloads, cache, dumped>>
pipeVars == <<segments, profanity_list, buffer, stage, mute_schedule, merged, filtered>>
vars == <<jobs, pc, custom_words, audio_path, result, served, downloads, cache, dumped,
          segments, profanity_list, buffer, stage, mute_schedule, merged, filtered>>

\* The mute_schedule field of a job: None, or a list.
None == [null |-> TRUE, entries |-> <<>>]
List(entries) == [null |-> FALSE, entries |-> entries]

NoPath == <<"", "">>

\* No background task and no pipeline run.
JobsIdle ==
    /\ jobs = <<>>
    /\ pc = [j \in JobIds |-> "none"]
    /\ custom_words = [j \in JobIds |-> <<>>]
    /\ audio_path = [j \in JobIds |-> NoPath]
    /\ result = [j \in JobIds |-> <<>>]
    /\ served = [j \in JobIds |-> ""]
    /\ downloads = <<>>
    /\ cache = [k \in Stems |-> NoFile]
    /\ dumped = [k \in Stems |-> <<>>]

PipelineIdle ==
    /\ segments = <<>>
    /\ profanity_list = <<>>
    /\ buffer = DEFAULT_BUFFER
    /\ stage = "idle"
    /\ mute_schedule = <<>>
    /\ merged = <<>>
    /\ filtered = <<>>

\* ------------------------------------------------------------------------
\* One derivation, step by step (a cache miss of generate_mute_schedule)
\* ------------------------------------------------------------------------

\* The segments of a transcript: text and start <= end from the grids.
SegmentValues ==
    { Seg(t, s, e) : t \in Texts, s \in TimeGrid, e \in TimeGrid } 

WellFormedSegments == { g \in SegmentValues : g.start <= g.end }

\* The transcripts of at most MaxSegs segments.
Transcripts ==
    UNION { [1..n -> WellFormedSegments] : n \in 0..MaxSegs }

PipelineInit ==
    /\ JobsIdle
    /\ segments \in Transcripts
    /\ \E cw \in CustomWordLists : profanity_list \in Orderings(ProfanityWords(cw))
    /\ buffer \in Buffers
    /\ stage = "scan"
    /\ mute_schedule = <<>>
    /\ merged = <<>>
    /\ filtered = <<>>

Scan ==
    /\ stage = "scan"
    /\ mute_schedule' = ScanSegments(segments, profanity_list, buffer)
    /\ stage' = "sort"
    /\ UNCHANGED <<segments, profanity_list, buffer, merged, filtered>>
    /\ UNCHANGED jobVars

Sort ==
    /\ stage = "sort"
    /\ mute_schedule' = SortByStart(mute_schedule)
    /\ stage' = "merge"
    /\ UNCHANGED <<segments, profanity_list, buffer, merged, filtered>>
    /\ UNCHANGED jobVars

\* The merge loop.  The loop updates the end of entries it shares with
\* mute_schedule; the code does not read mute_schedule again, and the model
\* keeps in it the zones as the loop found them.
Merge ==
    /\ stage = "merge"
    /\ merged' = MergeZones(mute_schedule)
    /\ stage' = "filter"
    /\ UNCHANGED <<segments, profanity_list, buffer, mute_schedule, filtered>>
    /\ UNCHANGED jobVars

Filter ==
    /\ stage = "filter"
    /\ filtered' = FilterLong(merged)
    /\ stage' = "done"
    /\ UNCHANGED <<segments, profanity_list, buffer, mute_schedule, merged>>
    /\ UNCHANGED jobVars

PipelineNext == Scan \/ Sort \/ Merge \/ Filter

PipelineSpec == PipelineInit /\ [][PipelineNext]_vars

\* ------------------------------------------------------------------------
\* app.py: the request handlers
\* ------------------------------------------------------------------------

\* The identifiers str(uuid.uuid4()) may return: those no job has.
Uuid4 == JobIds \ DOMAIN jobs

\* A faulty variant of the submission: the registry is started afresh.
ProcessVideoAlone(job_id, video_url, words) ==
    /\ job_id \in Uuid4
    /\ jobs' = [j \in {job_id} |->
                  [status |-> "queued", url |-> video_url, mute_schedule |-> None]]
    /\ pc' = [pc EXCEPT ![job_id] = "queued"]
    /\ custom_words' = [custom_words EXCEPT ![job_id] = words]
    /\ UNCHANGED <<audio_path, result, served, downloads, cache, dumped>>
    /\ UNCHANGED pipeVars

\* POST /process with a url: a new job under a fresh uuid, queued, and its
\* background task added.
ProcessVideo(job_id, video_url, words) ==
    /\ job_id \in Uuid4
    /\ jobs' = [j \in DOMAIN jobs \cup {job_id} |->
                  IF j = job_id
                  THEN [status |-> "queued", url |-> video_url, mute_schedule |-> None]
                  ELSE jobs[j]]
    /\ pc' = [pc EXCEPT ![job_id] = "queued"]
    /\ custom_words' = [custom_words EXCEPT ![job_id] = words]
    /\ UNCHANGED <<audio_path, result, served, downloads, cache, dumped>>
    /\ UNCHANGED pipeVars

\* POST /process without a url: 400, nothing is registered.
ProcessVideoMissingUrl ==
    /\ UNCHANGED vars

\* The reply of GET /status/{job_id}.
StatusReply(job_id) ==
    IF job_id \notin DOMAIN jobs
    THEN [code |-> 404, status |-> "", url |-> ""]
    ELSE [code |-> 200, status |-> jobs[job_id].status, url |-> jobs[job_id].url]

\* GET /status/{job_id}: replies, changes nothing.
GetStatus(job_id) ==
    /\ StatusReply(job_id).code \in {200, 404}
    /\ UNCHANGED vars

\* A faulty variant of the reply: a job in error is served like a done one.
ReplyUnlessRunning(job_id) ==
    IF job_id \notin DOMAIN jobs
    THEN [code |-> 404, url |-> "", mute_schedule |-> None]
    ELSE IF jobs[job_id].status \notin {"done", "error"}
    THEN [code |-> 202, url |-> "", mute_schedule |-> None]
    ELSE [code |-> 200, url |-> jobs[job_id].url,
          mute_schedule |-> jobs[job_id].mute_schedule]

\* The reply of GET /mute_schedule/{job_id}.
MuteScheduleReply(job_id) ==
    IF job_id \notin DOMAIN jobs
    THEN [code |-> 404, url |-> "", mute_schedule |-> None]
    ELSE IF jobs[job_id].status # "done"
    THEN [code |-> 202, url |-> "", mute_schedule |-> None]
    ELSE [code |-> 200, url |-> jobs[job_id].url,
          mute_schedule |-> jobs[job_id].mute_schedule]

\* GET /mute_schedule/{job_id}: replies, changes nothing.
GetMuteSchedule(job_id) ==
    /\ MuteScheduleReply(job_id).code \in {200, 202, 404}
    /\ UNCHANGED vars

\* ------------------------------------------------------------------------
\* app.py: process_job, the background task of one job
\* ------------------------------------------------------------------------

\* A faulty variant of the status write: every entry gets the status.
SetStatusOfAll(job_id, status) ==
    [j \in DOMAIN jobs |-> [jobs[j] EXCEPT !.status = status]]

\* jobs[job_id]["status"] = status
SetStatus(job_id, status) == [jobs EXCEPT ![job_id].status = status]

\* A faulty variant of the handler: the exception ends the task and the
\* job keeps the status it had.
Propagate(job_id) ==
    /\ jobs' = jobs
    /\ pc' = [pc EXCEPT ![job_id] = "end"]

\* except Exception: the status becomes "error"; the schedule is stored by
\* the next statement.
Except(job_id) ==
    /\ jobs' = SetStatus(job_id, "error")
    /\ pc' = [pc EXCEPT ![job_id] = "except"]

\* A faulty variant of the handler's store: the schedule is left None.
StoreNone(job_id) ==
    /\ pc[job_id] = "except"
    /\ jobs' = [jobs EXCEPT ![job_id].mute_schedule = None]
    /\ pc' = [pc EXCEPT ![job_id] = "end"]
    /\ UNCHANGED <<custom_words, audio_path, result, served, downloads, cache, dumped>>
    /\ UNCHANGED pipeVars

\* jobs[job_id]["mute_schedule"] = [] of the handler.
StoreEmpty(job_id) ==
    /\ pc[job_id] = "except"
    /\ jobs' = [jobs EXCEPT ![job_id].mute_schedule = List(<<>>)]
    /\ pc' = [pc EXCEPT ![job_id] = "end"]
    /\ UNCHANGED <<custom_words, audio_path, result, served, downloads, cache, dumped>>
    /\ UNCHANGED pipeVars

\* A faulty variant of the start: the status skips "downloading".
StartTranscribing(job_id) ==
    /\ pc[job_id] = "queued"
    /\ jobs' = [jobs EXCEPT ![job_id].status = "transcribing"]
    /\ pc' = [pc EXCEPT ![job_id] = "ytdlp"]
    /\ UNCHANGED <<custom_words, audio_path, result, served, downloads, cache, dumped>>
    /\ UNCHANGED pipeVars

\* The task starts: status "downloading", yt-dlp is launched.
StartDownload(job_id) ==
    /\ pc[job_id] = "queued"
    /\ jobs' = SetStatus(job_id, "downloading")
    /\ pc' = [pc EXCEPT ![job_id] = "ytdlp"]
    /\ UNCHANGED <<custom_words, audio_path, result, served, downloads, cache, dumped>>
    /\ UNCHANGED pipeVars

\* The directory after yt-dlp wrote `file`: a file already there is kept
\* as it is, a new one is the most recent.
Downloaded(files, file) ==
    IF file \in Range(files) THEN files ELSE Append(files, file)

\* yt-dlp exits 0 having written the audio file of the URL.
YtDlpDone(job_id) ==
    /\ pc[job_id] = "ytdlp"
    /\ downloads' = Downloaded(downloads, OutputFile(jobs[job_id].url))
    /\ pc' = [pc EXCEPT ![job_id] = "glob"]
    /\ UNCHANGED <<jobs, custom_words, audio_path, result, served, cache, dumped>>
    /\ UNCHANGED pipeVars

\* yt-dlp exits 0 without writing a file.
YtDlpNothing(job_id) ==
    /\ pc[job_id] = "ytdlp"
    /\ pc' = [pc EXCEPT ![job_id] = "glob"]
    /\ UNCHANGED <<jobs, custom_words, audio_path, result, served, downloads, cache, dumped>>
    /\ UNCHANGED pipeVars

\* yt-dlp exits non-zero: CalledProcessError, re-raised as RuntimeError.
YtDlpFails(job_id) ==
    /\ pc[job_id] = "ytdlp"
    /\ Except(job_id)
    /\ UNCHANGED <<custom_words, audio_path, result, served, downloads, cache, dumped>>
    /\ UNCHANGED pipeVars

\* files[0] of the directory sorted by mtime, most recent first.
LatestFile(files) == files[Len(files)]

\* download_audio returns the most recent file of the directory, or raises
\* FileNotFoundError when there is none; then status "transcribing".
PickLatest(job_id) ==
    /\ pc[job_id] = "glob"
    /\ IF downloads = <<>>
       THEN /\ Except(job_id)
            /\ UNCHANGED audio_path
       ELSE /\ audio_path' = [audio_path EXCEPT ![job_id] = LatestFile(downloads)]
            /\ jobs' = SetStatus(job_id, "transcribing")
            /\ pc' = [pc EXCEPT ![job_id] = "cache"]
    /\ UNCHANGED <<custom_words, result, served, downloads, cache, dumped>>
    /\ UNCHANGED pipeVars

\* The cache key of an audio file.
CacheKey(path) == Stem(path)

\* A faulty variant of the lookup: a call that carries custom words takes no
\* record and goes on to transcribe.
CacheLookupByWords(job_id) ==
    /\ pc[job_id] = "cache"
    /\ LET file == cache[CacheKey(audio_path[job_id])]
       IN  IF ~file.exists \/ custom_words[job_id] # <<>>
           THEN /\ pc' = [pc EXCEPT ![job_id] = "transcribe"]
                /\ UNCHANGED <<jobs, result, served>>
           ELSE IF JsonValid(file)
           THEN /\ result' = [result EXCEPT ![job_id] = JsonLoad(file)]
                /\ served' = [served EXCEPT ![job_id] = "cache"]
                /\ pc' = [pc EXCEPT ![job_id] = "returned"]
                /\ UNCHANGED jobs
           ELSE /\ Except(job_id)
                /\ UNCHANGED <<result, served>>
    /\ UNCHANGED <<custom_words, audio_path, downloads, cache, dumped>>
    /\ UNCHANGED pipeVars

\* generate_mute_schedule looks for the cache record: absent, it goes on to
\* transcribe; present, json.load returns it or raises on an invalid text.
CacheLookup(job_id) ==
    /\ pc[job_id] = "cache"
    /\ LET file == cache[CacheKey(audio_path[job_id])]
       IN  IF ~file.exists
           THEN /\ pc' = [pc EXCEPT ![job_id] = "transcribe"]
                /\ UNCHANGED <<jobs, result, served>>
           ELSE IF JsonValid(file)
           THEN /\ result' = [result EXCEPT ![job_id] = JsonLoad(file)]
                /\ served' = [served EXCEPT ![job_id] = "cache"]
                /\ pc' = [pc EXCEPT ![job_id] = "returned"]
                /\ UNCHANGED jobs
           ELSE /\ Except(job_id)
                /\ UNCHANGED <<result, served>>
    /\ UNCHANGED <<custom_words, audio_path, downloads, cache, dumped>>
    /\ UNCHANGED pipeVars

\* The files yt-dlp may leave in the downloads directory.
AudioFiles == {OutputFile(u) : u \in Sources}

\* What a cache miss derives under the default buffer, by audio file and by
\* the custom words of the request: one row for each order list(set()) may
\* give profanity_list.
FreshSchedules ==
    UNION { { [path |-> path, words |-> words,
               filtered |-> Derive(AlignedSegments(path), order, DEFAULT_BUFFER)] :
                 order \in Orderings(ProfanityWords(words)) } :
            path \in AudioFiles, words \in CustomWordLists }

\* WhisperX transcribes and aligns, the schedule is derived, and the cache
\* file is opened for writing, which empties it.
TranscribeAndDerive(job_id) ==
    /\ pc[job_id] = "transcribe"
    /\ \E fresh \in FreshSchedules :
          /\ fresh.path = audio_path[job_id]
          /\ fresh.words = custom_words[job_id]
          /\ result' = [result EXCEPT ![job_id] = fresh.filtered]
    /\ served' = [served EXCEPT ![job_id] = "fresh"]
    /\ cache' = [cache EXCEPT ![CacheKey(audio_path[job_id])] = Truncated]
    /\ pc' = [pc EXCEPT ![job_id] = "dump"]
    /\ UNCHANGED <<jobs, custom_words, audio_path, downloads, dumped>>
    /\ UNCHANGED pipeVars

\* WhisperX raises.
TranscribeFails(job_id) ==
    /\ pc[job_id] = "transcribe"
    /\ Except(job_id)
    /\ UNCHANGED <<custom_words, audio_path, result, served, downloads, cache, dumped>>
    /\ UNCHANGED pipeVars

\* open(cache_file, "w") raises OSError: nothing is written.
OpenCacheFails(job_id) ==
    /\ pc[job_id] = "transcribe"
    /\ Except(job_id)
    /\ UNCHANGED <<custom_words, audio_path, result, served, downloads, cache, dumped>>
    /\ UNCHANGED pipeVars

\* json.dump writes the record and the file is closed; the function returns.
DumpCache(job_id) ==
    /\ pc[job_id] = "dump"
    /\ cache' = [cache EXCEPT ![CacheKey(audio_path[job_id])] = JsonDump(result[job_id])]
    /\ dumped' = [dumped EXCEPT ![CacheKey(audio_path[job_id])] = result[job_id]]
    /\ pc' = [pc EXCEPT ![job_id] = "returned"]
    /\ UNCHANGED <<jobs, custom_words, audio_path, result, served, downloads>>
    /\ UNCHANGED pipeVars

\* The write raises OSError: the file stays as it is.
DumpCacheFails(job_id) ==
    /\ pc[job_id] = "dump"
    /\ Except(job_id)
    /\ UNCHANGED <<custom_words, audio_path, result, served, downloads, cache, dumped>>
    /\ UNCHANGED pipeVars

\* jobs[job_id]["status"] = "done"
SetDone(job_id) ==
    /\ pc[job_id] = "returned"
    /\ jobs' = SetStatus(job_id, "done")
    /\ pc' = [pc EXCEPT ![job_id] = "store"]
    /\ UNCHANGED <<custom_words, audio_path, result, served, downloads, cache, dumped>>
    /\ UNCHANGED pipeVars

\* jobs[job_id]["mute_schedule"] = mute_schedule
StoreSchedule(job_id) ==
    /\ pc[job_id] = "store"
    /\ jobs' = [jobs EXCEPT ![job_id].mute_schedule = List(result[job_id])]
    /\ pc' = [pc EXCEPT ![job_id] = "end"]
    /\ UNCHANGED <<custom_words, audio_path, result, served, downloads, cache, dumped>>
    /\ UNCHANGED pipeVars

\* One step of the background task of a job.
ProcessJob(job_id) ==
    \/ StartDownload(job_id)
    \/ YtDlpDone(job_id)
    \/ YtDlpNothing(job_id)
    \/ YtDlpFails(job_id)
    \/ PickLatest(job_id)
    \/ CacheLookup(job_id)
    \/ TranscribeAndDerive(job_id)
    \/ TranscribeFails(job_id)
    \/ OpenCacheFails(job_id)
    \/ DumpCache(job_id)
    \/ DumpCacheFails(job_id)
    \/ SetDone(job_id)
    \/ StoreSchedule(job_id)
    \/ StoreEmpty(job_id)

Init == JobsIdle /\ PipelineIdle

Next ==
    \/ \E job_id \in JobIds, video_url \in Sources, words \in CustomWordLists :
          ProcessVideo(job_id, video_url, words)
    \/ ProcessVideoMissingUrl
    \/ \E job_id \in JobIds : GetStatus(job_id)
    \/ \E job_id \in JobIds : GetMuteSchedule(job_id)
    \/ \E job_id \in JobIds : ProcessJob(job_id)

Spec == Init /\ [][Next]_vars

\* Every background task that has been added runs on: the thread pool
\* schedules each task, and each collaborator call returns or raises.
FairSpec == Spec /\ \A job_id \in JobIds : WF_vars(ProcessJob(job_id))

\* ------------------------------------------------------------------------
\* Properties of the derivation (PipelineSpec)
\* ------------------------------------------------------------------------

\* The instants a zone can start or end at: a grid time, moved by a buffer.
Instants ==
    {Max(0, t - b) : t \in TimeGrid, b \in Buffers}
        \cup {t + b : t \in TimeGrid, b \in Buffers}

\* The open gaps between neighbouring instants.
Gaps ==
    { pq \in Instants \X Instants :
        /\ pq[1] < pq[2]
        /\ ~ \E r \in Instants : pq[1] < r /\ r < pq[2] }

\* The time a zone covers: the instants <<p, p>> and the gaps <<p, q>> that
\* lie in it.  Every zone starts and ends at an instant, so no zone covers
\* a gap in part.
CoverOf(zone) ==
    {<<p, p>> : p \in {x \in Instants : zone.start <= x /\ x <= zone.end}}
        \cup {pq \in Gaps : zone.start <= pq[1] /\ pq[2] <= zone.end}

\* The union of the time a sequence of zones covers.
Covered(zones) == UNION {CoverOf(zones[i]) : i \in DOMAIN zones}

\* C1: the schedule a cache miss derives is sorted ascending by start and
\* pairwise non-overlapping: each interval ends no later than the next
\* one starts.
C1_SortedNonOverlapping ==
    stage = "done" =>
        \A i \in 1..(Len(filtered) - 1) :
            /\ filtered[i].start <= filtered[i + 1].start
            /\ filtered[i].end <= filtered[i + 1].start

\* A derivation from segments given out of time order that ends with two
\* intervals.
C1_Witness ==
    /\ stage = "done"
    /\ Len(filtered) >= 2
    /\ Len(segments) >= 2
    /\ segments[1].start > segments[2].start

\* The output of a derivation taken as raw intervals and put through the
\* buffer, sort, merge and filter steps again, with the given buffer.
Reconsolidated(zones, pad) ==
    FilterLong(MergeZones(SortByStart(
        [i \in DOMAIN zones |-> BufferedZone(zones[i], zones[i].word, pad)])))

\* C11: consolidation is idempotent: the final schedule, fed back as raw
\* intervals with buffer 0, comes out exactly the same.
C11_Idempotent ==
    stage = "done" => Reconsolidated(filtered, 0) = filtered

\* A derivation with a non-zero buffer that joined zones and ended with two
\* intervals.
C11_Witness ==
    /\ stage = "done"
    /\ buffer > 0
    /\ Len(merged) < Len(mute_schedule)
    /\ Len(filtered) >= 2

\* The pairs <<i, word>> of a segment index and a word of profanity_list
\* that is a substring of the segment's lower-cased text.
Matches ==
    { iw \in (DOMAIN segments) \X Range(profanity_list) :
        Contains(iw[2], Lower(segments[iw[1]].text)) }

\* Whether zone is the buffered span of the match iw: the start is 0 when
\* the segment starts less than the buffer after 0 and start - buffer
\* otherwise, the end is the segment's end + buffer whatever the start.
ZoneOfMatch(zone, iw) ==
    /\ zone.word = iw[2]
    /\ zone.start = IF segments[iw[1]].start < buffer
                    THEN 0
                    ELSE segments[iw[1]].start - buffer
    /\ zone.end = segments[iw[1]].end + buffer

\* C12: once scanned, every match has its zone with the start clamped at 0
\* and the end at segment end + buffer, every zone is the zone of a match,
\* and no interval of the scanned, merged or final list starts before 0.
C12_BufferClamp ==
    /\ stage # "scan" =>
          /\ \A iw \in Matches :
                \E k \in DOMAIN mute_schedule : ZoneOfMatch(mute_schedule[k], iw)
          /\ \A k \in DOMAIN mute_schedule :
                \E iw \in Matches : ZoneOfMatch(mute_schedule[k], iw)
    /\ \A zones \in {mute_schedule, merged, filtered} :
          \A k \in DOMAIN zones : zones[k].start >= 0

\* A matched segment that starts 0.10 s in, less than the buffer of 0.17 s,
\* gave a final interval that starts at 0.
C12_Witness ==
    /\ stage = "done"
    /\ buffer = DEFAULT_BUFFER
    /\ \E iw \in Matches :
          /\ segments[iw[1]].start > 0
          /\ segments[iw[1]].start < buffer
          /\ \E k \in DOMAIN filtered :
                /\ filtered[k].start = 0
                /\ filtered[k].end = segments[iw[1]].end + buffer

\* Whether some zone covers the instant p, and the gap g.
InstantCovered(zones, p) ==
    \E k \in DOMAIN zones : zones[k].start <= p /\ p <= zones[k].end

GapCovered(zones, g) ==
    \E k \in DOMAIN zones : zones[k].start <= g[1] /\ g[2] <= zones[k].end

\* The connected components of the time the zones cover, as pairs
\* <<first, last>>: all of it covered from first to last, and nothing
\* covered just before first or just after last.  A component starts where
\* a zone starts and ends where a zone ends.
Components(zones) ==
    { ab \in {zones[k].start : k \in DOMAIN zones} \X {zones[k].end : k \in DOMAIN zones} :
        /\ ab[1] <= ab[2]
        /\ \A p \in Instants : (ab[1] <= p /\ p <= ab[2]) => InstantCovered(zones, p)
        /\ \A g \in Gaps : (ab[1] <= g[1] /\ g[2] <= ab[2]) => GapCovered(zones, g)
        /\ ~ \E g \in Gaps : g[2] = ab[1] /\ GapCovered(zones, g)
        /\ ~ \E g \in Gaps : g[1] = ab[2] /\ GapCovered(zones, g) }

\* C18: the final schedule holds, once each and with its full extent,
\* exactly the connected components of the buffered raw intervals that are
\* at most 7.0 s long: a component of exactly 7.0 s is kept, a longer one
\* is absent as a whole.
C18_FilterDropsWhole ==
    stage = "done" =>
        LET kept == { ab \in Components(mute_schedule) :
                        ab[2] - ab[1] <= MAX_DURATION }
        IN  /\ {<<filtered[i].start, filtered[i].end>> : i \in DOMAIN filtered} = kept
            /\ Len(filtered) = Cardinality(kept)

\* Three raw zones gave two merged intervals: one of exactly 7.0 s, which
\* is the final schedule, and a longer one joined from two zones, which is
\* absent.
C18_Witness ==
    /\ stage = "done"
    /\ Len(mute_schedule) = 3
    /\ Len(merged) = 2
    /\ Len(filtered) = 1
    /\ filtered[1].end - filtered[1].start = MAX_DURATION

\* Whether `after` is `before` with the zone m taken in by the merge rule:
\* joined to the last interval when it starts no later than that interval
\* ends (its end raised to the later of the two, start and word kept),
\* and appended as a new interval otherwise.
MergeRule(before, m, after) ==
    IF before # <<>> /\ m.start <= before[Len(before)].end
    THEN /\ Len(after) = Len(before)
         /\ \A i \in 1..(Len(before) - 1) : after[i] = before[i]
         /\ after[Len(after)].start = before[Len(before)].start
         /\ after[Len(after)].word = before[Len(before)].word
         /\ after[Len(after)].end =
               IF m.end > before[Len(before)].end THEN m.end ELSE before[Len(before)].end
    ELSE after = Append(before, m)

\* C19: the zones reach the merge loop in ascending start order, every
\* iteration of the loop follows the merge rule (a zone that starts exactly
\* at the accumulated end is joined), and consecutive merged intervals are
\* strictly separated.
C19_MergeRule ==
    stage \in {"filter", "done"} =>
        /\ \A i \in 1..(Len(mute_schedule) - 1) :
              mute_schedule[i].start <= mute_schedule[i + 1].start
        /\ \A i \in 1..Len(mute_schedule) :
              MergeRule(MergeZones(SubSeq(mute_schedule, 1, i - 1)),
                        mute_schedule[i],
                        MergeZones(SubSeq(mute_schedule, 1, i)))
        /\ merged = MergeZones(mute_schedule)
        /\ \A i \in 1..(Len(merged) - 1) : merged[i].end < merged[i + 1].start

\* A zone that starts exactly where the one before it ends, and ends
\* later, was joined to it: one interval from the start of the first to
\* the end of the second, under the word of the first.
C19_Witness ==
    /\ stage = "done"
    /\ Len(mute_schedule) = 2
    /\ mute_schedule[2].start = mute_schedule[1].end
    /\ mute_schedule[2].end > mute_schedule[1].end
    /\ mute_schedule[2].word # mute_schedule[1].word
    /\ merged = << [start |-> mute_schedule[1].start,
                    end   |-> mute_schedule[2].end,
                    word  |-> mute_schedule[1].word] >>

\* The segments that some word of profanity_list matches.
MatchedSegments == {iw[1] : iw \in Matches}

\* C20: the scan emits one zone for each match and no other (none for a
\* segment without a match), each the buffered span of its segment; when
\* exactly one segment matches and its buffered span is at most 7.0 s the
\* final schedule is that one interval; when nothing matches the schedule
\* is empty.
C20_ScanEmitsPerMatch ==
    /\ stage # "scan" =>
          /\ Len(mute_schedule) = Cardinality(Matches)
          /\ \A iw \in Matches :
                \E k \in DOMAIN mute_schedule : ZoneOfMatch(mute_schedule[k], iw)
          /\ \A k \in DOMAIN mute_schedule :
                \E iw \in Matches : ZoneOfMatch(mute_schedule[k], iw)
          /\ \A i \in DOMAIN segments :
                Cardinality({k \in DOMAIN mute_schedule :
                               \E iw \in Matches :
                                   iw[1] = i /\ ZoneOfMatch(mute_schedule[k], iw)})
                    >= Cardinality({iw \in Matches : iw[1] = i})
    /\ stage = "done" =>
          /\ Matches = {} => filtered = <<>>
          /\ \A i \in DOMAIN segments :
                LET lo == IF segments[i].start < buffer THEN 0
                          ELSE segments[i].start - buffer
                    hi == segments[i].end + buffer
                IN  (MatchedSegments = {i} /\ hi - lo <= MAX_DURATION) =>
                        /\ Len(filtered) = 1
                        /\ filtered[1].start = lo
                        /\ filtered[1].end = hi
                        /\ <<i, filtered[1].word>> \in Matches

\* Of two segments only the second matches, by two words: the scan emitted
\* two zones of the same span and the final schedule is the one interval.
C20_Witness ==
    /\ stage = "done"
    /\ buffer = DEFAULT_BUFFER
    /\ Len(segments) = 2
    /\ MatchedSegments = {2}
    /\ Cardinality(Matches) = 2
    /\ Len(mute_schedule) = 2
    /\ mute_schedule[1].word # mute_schedule[2].word
    /\ Len(filtered) = 1
    /\ filtered[1].start = segments[2].start - buffer

\* C3 as stated: the time the final schedule covers equals the time the
\* buffered input intervals cover.
C3_OutputCoversInput ==
    stage = "done" => Covered(filtered) = Covered(mute_schedule)

\* The merged zones the filter drops.
DroppedZones == SelectSeq(merged, LAMBDA entry : ~KeepsEntry(entry))

\* C3 amended: the merged intervals, before the duration filter, cover
\* exactly the time the buffered input covers, and the final schedule
\* covers that time less the merged intervals longer than 7.0 s.
C3_MergedCoversInput ==
    stage = "done" =>
        /\ Covered(merged) = Covered(mute_schedule)
        /\ Covered(filtered) = Covered(mute_schedule) \ Covered(DroppedZones)

\* A derivation that merged overlapping zones, kept one interval and
\* dropped another.
C3_Witness ==
    /\ stage = "done"
    /\ Len(merged) < Len(mute_schedule)
    /\ Len(filtered) >= 1
    /\ Len(filtered) < Len(merged)

\* ------------------------------------------------------------------------
\* Properties of the job registry and the background tasks (Spec, FairSpec)
\* ------------------------------------------------------------------------

Terminal == {"done", "error"}

\* The moves of a job's status the lifecycle allows.
AllowedMoves ==
    { <<"queued", "downloading">>,
      <<"downloading", "transcribing">>,
      <<"transcribing", "done">>,
      <<"queued", "error">>,
      <<"downloading", "error">>,
      <<"transcribing", "error">> }

\* C2: a job is registered as queued, and its status only moves along
\* queued -> downloading -> transcribing -> done, or from a non-terminal
\* status to error; done and error never change again.
C2_StatusOrder ==
    [][ \A j \in DOMAIN jobs' :
          IF j \in DOMAIN jobs
          THEN \/ jobs'[j].status = jobs[j].status
               \/ <<jobs[j].status, jobs'[j].status>> \in AllowedMoves
          ELSE jobs'[j].status = "queued" ]_vars

\* A job served from the cache has ended done, beside the job that derived
\* the schedule it was served.
C2_Witness ==
    \E j, k \in DOMAIN jobs :
        /\ pc[j] = "end" /\ jobs[j].status = "done" /\ served[j] = "cache"
        /\ pc[k] = "end" /\ jobs[k].status = "done" /\ served[k] = "fresh"

\* Whether every entry of a list is at most 7.0 s long.
AllShort(entries) ==
    \A i \in DOMAIN entries : entries[i].end - entries[i].start <= MAX_DURATION

\* C4: every interval of every schedule generate_mute_schedule holds or
\* returns, derived or read from the cache, and of every schedule stored in
\* a job, is at most 7.0 s long.
C4_DurationBound ==
    \A j \in JobIds :
        /\ AllShort(result[j])
        /\ j \in DOMAIN jobs => AllShort(jobs[j].mute_schedule.entries)

\* A job done with a schedule read from the cache, of an interval of
\* exactly 7.0 s, beside a job that derived its own.
C4_Witness ==
    \E j, k \in DOMAIN jobs :
        /\ jobs[j].status = "done" /\ served[j] = "cache"
        /\ jobs[j].mute_schedule = List(result[j])
        /\ \E i \in DOMAIN result[j] : result[j][i].end - result[j][i].start = MAX_DURATION
        /\ served[k] = "fresh"

\* C5: a step of process_job that raises sets the status to error and
\* touches no other job; the handler then records the empty list; a task
\* that has ended left its job done or error, and an error job with the
\* empty list, not None.
C5_ErrorRecorded ==
    /\ [](\A j \in DOMAIN jobs :
            pc[j] = "end" =>
                /\ jobs[j].status \in Terminal
                /\ jobs[j].status = "error" => jobs[j].mute_schedule = List(<<>>))
    /\ [][ \A j \in DOMAIN jobs :
            /\ (pc[j] # "except" /\ pc'[j] = "except") =>
                  /\ jobs'[j].status = "error"
                  /\ \A k \in DOMAIN jobs \ {j} : jobs'[k] = jobs[k] /\ pc'[k] = pc[k]
            /\ (pc[j] = "except" /\ pc'[j] # "except") =>
                  /\ pc'[j] = "end"
                  /\ jobs'[j].status = "error"
                  /\ jobs'[j].mute_schedule = List(<<>>)
                  /\ \A k \in DOMAIN jobs \ {j} : jobs'[k] = jobs[k] /\ pc'[k] = pc[k] ]_vars

\* A job whose acquisition failed has ended in error with the empty list
\* while the other job is still being processed.
C5_Witness ==
    \E j, k \in DOMAIN jobs :
        /\ pc[j] = "end" /\ jobs[j].status = "error" /\ audio_path[j] = NoPath
        /\ jobs[j].mute_schedule = List(<<>>)
        /\ pc[k] = "transcribe"

\* C6: both queries reply 404 exactly for an id that is not registered;
\* get_mute_schedule replies 202 for a registered job that is not done
\* (error included) and the job's schedule exactly when it is done; neither
\* query changes the registry.
C6_QueryReplies ==
    /\ [](\A id \in JobIds :
            /\ StatusReply(id).code = 404 <=> id \notin DOMAIN jobs
            /\ MuteScheduleReply(id).code = 404 <=> id \notin DOMAIN jobs
            /\ id \in DOMAIN jobs =>
                 /\ StatusReply(id).code = 200
                 /\ StatusReply(id).status = jobs[id].status
                 /\ MuteScheduleReply(id).code = 202 <=> jobs[id].status # "done"
                 /\ MuteScheduleReply(id).code = 200 <=> jobs[id].status = "done"
                 /\ jobs[id].status = "done" =>
                      MuteScheduleReply(id).mute_schedule = jobs[id].mute_schedule)
    /\ [][ (\E id \in JobIds : GetStatus(id) \/ GetMuteSchedule(id)) => jobs' = jobs ]_vars

\* One id is unknown (404) while the registered job has ended in error, for
\* which get_mute_schedule replies 202.
C6_Witness ==
    \E id \in JobIds, j \in DOMAIN jobs :
        /\ id \notin DOMAIN jobs
        /\ StatusReply(id).code = 404
        /\ pc[j] = "end" /\ jobs[j].status = "error"
        /\ MuteScheduleReply(j).code = 202

\* C7 as stated: a job whose schedule was freshly derived ends done with
\* that schedule stored, whether or not the cache record could be written.
C7_CacheWriteNonFatal ==
    \A j \in DOMAIN jobs :
        (served[j] = "fresh" /\ pc[j] = "end") =>
            /\ jobs[j].status = "done"
            /\ jobs[j].mute_schedule = List(result[j])

\* C8: every registered job eventually is in the registry with status done
\* or error; a step that removed or aborted a job in flight would leave it
\* short of that for ever.
C8_ReachesTerminal ==
    \A j \in JobIds :
        (j \in DOMAIN jobs) ~> (j \in DOMAIN jobs /\ jobs[j].status \in Terminal)

\* One job is done and another has ended in error.
C8_Witness ==
    \E j, k \in DOMAIN jobs :
        /\ jobs[j].status = "done" /\ pc[j] = "end"
        /\ jobs[k].status = "error" /\ pc[k] = "end"

\* C9 as stated: the path download_audio returned to a job is the file of
\* that job's source.
C9_OwnAudioFile ==
    \A j \in DOMAIN jobs :
        audio_path[j] # NoPath => audio_path[j] = OutputFile(jobs[j].url)

\* C10: a call that finds a completely written record for its cache key
\* returns, without transcribing, the very list the last finished
\* json.dump for that key was given.
C10_CacheRoundTrip ==
    [][ \A j \in DOMAIN jobs :
          LET k == CacheKey(audio_path[j]) IN
          /\ (pc[j] = "cache" /\ pc'[j] # "cache" /\ JsonValid(cache[k])) =>
                /\ pc'[j] = "returned"
                /\ served'[j] = "cache"
                /\ result'[j] = dumped[k]
          /\ (pc[j] = "cache" /\ pc'[j] = "returned") => result'[j] = dumped[k] ]_vars

\* A job returned from the cache a schedule of two intervals that an
\* earlier job derived and stored.
C10_Witness ==
    \E j, k \in DOMAIN jobs :
        /\ served[j] = "cache" /\ pc[j] = "returned"
        /\ Len(result[j]) >= 2
        /\ result[j][1] # result[j][2]
        /\ served[k] = "fresh" /\ jobs[k].status = "done"
        /\ jobs[k].mute_schedule = List(result[j])

\* C13: a submission registers exactly one job, under an id no job had,
\* queued with schedule None, its task added and not yet begun, every other
\* entry and task as it was; and no step removes an entry.
C13_RegistersOneJob ==
    [][ /\ DOMAIN jobs \subseteq DOMAIN jobs'
        /\ \A job_id \in JobIds, video_url \in Sources, words \in CustomWordLists :
              ProcessVideo(job_id, video_url, words) =>
                  /\ job_id \notin DOMAIN jobs
                  /\ DOMAIN jobs' = DOMAIN jobs \cup {job_id}
                  /\ jobs'[job_id] = [status |-> "queued", url |-> video_url,
                                      mute_schedule |-> None]
                  /\ pc'[job_id] = "queued"
                  /\ \A j \in DOMAIN jobs : jobs'[j] = jobs[j] /\ pc'[j] = pc[j] ]_vars

\* A job just registered, its task not begun, beside an earlier job that
\* is being transcribed.
C13_Witness ==
    \E j, k \in DOMAIN jobs :
        /\ jobs[j].status = "queued" /\ pc[j] = "queued"
        /\ jobs[j].mute_schedule = None
        /\ jobs[k].status = "transcribing"

\* C14: every step of the background task of a job leaves the entries of
\* all other jobs unchanged, and a step that changes the entry of a
\* registered job is a step of that job's own task.
C14_OwnEntryOnly ==
    [][ \A j \in DOMAIN jobs :
          /\ ProcessJob(j) => \A k \in DOMAIN jobs \ {j} : jobs'[k] = jobs[k]
          /\ jobs'[j] # jobs[j] => ProcessJob(j) ]_vars

\* Two tasks under way at once: one job is being transcribed while the
\* other waits for yt-dlp.
C14_Witness ==
    \E j, k \in DOMAIN jobs :
        /\ jobs[j].status = "transcribing" /\ pc[j] = "dump"
        /\ jobs[k].status = "downloading" /\ pc[k] = "ytdlp"

\* C15 as stated: in every state a job whose status is done has a schedule
\* attached, not None, so a get_mute_schedule call that succeeds never
\* returns None.
C15_DoneHasSchedule ==
    \A j \in DOMAIN jobs :
        /\ jobs[j].status = "done" => jobs[j].mute_schedule # None
        /\ MuteScheduleReply(j).code = 200 => MuteScheduleReply(j).mute_schedule # None

\* Whether two jobs hold audio files of the same stem.
SameKey(j, k) ==
    /\ j # k
    /\ audio_path[j] # NoPath
    /\ audio_path[k] # NoPath
    /\ CacheKey(audio_path[j]) = CacheKey(audio_path[k])

\* C16 as stated: of two jobs whose audio has the same stem, one never
\* comes to read the cache record while the other has it partly written,
\* and when both have ended done their schedules are equal and the record
\* holds that schedule.
C16_NoPartialRecord ==
    \A j, k \in DOMAIN jobs :
        SameKey(j, k) =>
            LET file == cache[CacheKey(audio_path[j])] IN
            /\ (pc[j] = "cache" /\ pc[k] = "dump") =>
                  (file.exists => JsonValid(file))
            /\ (pc[j] = "end" /\ pc[k] = "end"
                    /\ jobs[j].status = "done" /\ jobs[k].status = "done") =>
                  /\ jobs[j].mute_schedule = jobs[k].mute_schedule
                  /\ file = JsonDump(jobs[j].mute_schedule.entries)

====
